---- MODULE Spec2Model ----
(***************************************************************************)
(* Model of src/src/pykeen/evaluation/evaluator.py: Evaluator.evaluate, the *)
(* evaluation size search (Evaluator.batch_and_slice and                    *)
(* Evaluator._param_size_search), the triple restriction masks, evaluate    *)
(* and _evaluate.                                                           *)
(*                                                                          *)
(* Spec      a call of Evaluator.evaluate or of Evaluator.batch_and_slice.  *)
(*           One probe of the size search is one call                       *)
(*           evaluate(only_size_probing=True), seen from the search by the  *)
(*           way it ends.  evaluate reads its local relation_filter at line *)
(*           619 before anything is assigned to it, so on one triple or     *)
(*           more a call of evaluate that gets as far as its first batch    *)
(*           raises UnboundLocalError; what is left to the environment (the *)
(*           device) is whether the call fails before that.  What a call on *)
(*           no triples does rests on split_list_in_batches_iter, which is  *)
(*           imported from pykeen.utils.                                    *)
(* SpecTerm  the size search again, without its trace and with the          *)
(*           statements of a loop turn as steps, for what it takes to end.  *)
(* SpecMask  the two triple masks, _compute_triples_mask_high_memory and    *)
(*           _compute_triples_mask_low_memory, and the restriction of the   *)
(*           triples at the start of evaluate, on inputs drawn at Init.     *)
(* SpecBatch direct calls of _evaluate on arguments drawn at Init: column 0 *)
(*           with relation_filter=None, then column 2 with the relation     *)
(*           filter the first call returned.                                *)
(* SpecLoop  evaluate as a whole: the restriction of the triples, the split *)
(*           into batches, the loop over the batches (one action is one     *)
(*           turn of the loop, both sides), and the finalisation.           *)
(***************************************************************************)
EXTENDS Integers, Sequences, FiniteSets, TLC

VARIABLES
    pc,              \* where the call stands: "called", "idle", "loop", "searched",
                     \* "run", "done" (SpecTerm: also the ProbeEnded values)
    entry,           \* the method called: "evaluate" (Evaluator.evaluate) or "batch_and_slice"
    self_sizes,      \* the evaluator's attributes self.batch_size, self.slice_size
    key,             \* _param_size_search: key
    values_dict,     \* _param_size_search: values_dict (batch_size, slice_size)
    reached_max,     \* _param_size_search: reached_max
    evaluated_once,  \* _param_size_search: evaluated_once
    given_batch_size,\* the batch_size argument as the caller gave it
    batch_size,      \* batch_and_slice: batch_size (argument, then the first search's value)
    maximum_triples, \* mapped_triples.shape[0] (None while mapped_triples is None)
    model,           \* num_entities, can_slice_h, can_slice_t, create_inverse_triples,
                     \* automatic_memory_optimization
    scorer,          \* the environment: the device, and when a call of evaluate fails on it
    result,          \* how batch_and_slice ended
    trace,           \* the probes made and the cache releases, in order
    mapped_triples,          \* evaluate: mapped_triples as given
    restrict_entities_to,    \* evaluate: restrict_entities_to (Absent for None)
    restrict_relations_to,   \* evaluate: restrict_relations_to (Absent for None)
    memory_intense_filtering,\* evaluate: memory_intense_filtering
    masks,                   \* the masks computed so far, by the function computing them
    kept_triples,            \* evaluate: mapped_triples after mapped_triples[mask]
    training_triples,        \* model.triples_factory.mapped_triples
    evaluators,              \* evaluate: evaluators, each (filtered, requires_positive_mask)
    all_pos_triples,         \* evaluate: all_pos_triples (NoTensor for None)
    batch,                   \* the batch given to _evaluate
    relation_filter,         \* the relation filter passed between the two sides
    calls,                   \* the calls of _evaluate made, with what each handed over
    epc,                     \* where the evaluation side stands
    args,                    \* evaluate: only_size_probing, batch_size, squeeze as given
    all_batches,             \* evaluate: the batches as split_list_in_batches_iter made them
    batches,                 \* evaluate: the batches the iterator has still to yield
    loop_evaluated_once,     \* evaluate: its local evaluated_once
    bound_locals,            \* evaluate: which of its locals read in the loop are assigned
    log,                     \* the calls of the model and of the evaluators, in order
    outcome                  \* how evaluate ended

searchVars == << pc, entry, self_sizes, key, values_dict, reached_max, evaluated_once,
                 given_batch_size, batch_size, maximum_triples, model, scorer, result,
                 trace >>

maskVars == << mapped_triples, restrict_entities_to, restrict_relations_to,
               memory_intense_filtering, masks, kept_triples >>

batchVars == << training_triples, evaluators, all_pos_triples, batch, relation_filter,
                calls >>

loopVars == << args, all_batches, batches, loop_evaluated_once, bound_locals, log,
              outcome >>

evalVars == << maskVars, batchVars, epc, loopVars >>

vars == << searchVars, evalVars >>

\* Python's None, where an integer may stand.
None == 0 - 1

(***************************************************************************)
(* Bounds of the model.                                                     *)
(***************************************************************************)
MaxStart == 5       \* largest start batch size given by the caller
MaxTriples == 4     \* largest number of evaluation triples
MaxEntities == 5    \* largest model.num_entities
MaxK == 4           \* largest threshold of a threshold device
MaxEmptyProbes == 4 \* most probes followed of a search over no triples

\* if start_value is None: start_value = 256
DefaultBatchSize == 256

BOOL == {TRUE, FALSE}

\* The ways a call of evaluate can end: it returns, it raises a RuntimeError that is
\* a CUDA out-of-memory error, one that is a cuDNN error, one that is neither, or it
\* raises the UnboundLocalError of line 619 or a ValueError of the split into
\* batches (line 587), neither of which is a RuntimeError.
Outcomes == {"ok", "cuda_oom", "cudnn", "runtime_other", "UnboundLocalError",
             "ValueError"}

\* ceil(model.num_entities / 2)
CeilHalf(n) == (n + 1) \div 2

\* Mutant: every RuntimeError is taken for a memory error.
IsMemoryErrorAny(out) == out \in {"cuda_oom", "cudnn", "runtime_other"}

\* is_cudnn_error(runtime_error) or is_cuda_oom_error(runtime_error)
IsMemoryError(out) == out \in {"cuda_oom", "cudnn"}

\* except RuntimeError
IsRuntimeError(out) == out \in {"cuda_oom", "cudnn", "runtime_other"}

\* Mutant: the start value is not clamped to the number of triples.
ClampStartUnclamped(start_value, max_triples) ==
    IF start_value = None THEN DefaultBatchSize ELSE start_value

\* if start_value is None: 256; if start_value > maximum_triples: maximum_triples
ClampStart(start_value, max_triples) ==
    LET sv == IF start_value = None THEN DefaultBatchSize ELSE start_value
    IN  IF sv > max_triples THEN max_triples ELSE sv

\* Mutant: the value is quartered.
HalveTwice(v) == v \div 4

\* values_dict[key] //= 2
Halve(v) == v \div 2

\* values_dict[key] *= 2
Double(v) == v * 2

\* if not reached_max and values_dict['batch_size'] < maximum_triples
MayGrow(rm, vd, max_triples) == ~rm /\ vd.batch_size < max_triples

\* Mutant: the search goes on below 1.
AtFloorAtZero(v) == v = 0

\* values_dict[key] == 1
AtFloor(v) == v = 1

\* Mutant: the two branches of the check are swapped.
SlicingAvailableSwapped(m) ==
    IF m.create_inverse_triples
    THEN m.can_slice_t /\ m.can_slice_h
    ELSE m.can_slice_t

\* Mutant: the check is skipped.
SlicingAvailableAlways(m) == m.num_entities >= 0

\* _check_slicing_availability passes (raises nothing)
SlicingAvailable(m) ==
    IF m.create_inverse_triples
    THEN m.can_slice_t
    ELSE m.can_slice_t /\ m.can_slice_h

\* values_dict at the start of the batch_size search
BatchValues(start_value, max_triples) ==
    [batch_size |-> ClampStart(start_value, max_triples), slice_size |-> None]

\* Mutant: the slice_size search keeps a batch size of 2.
SliceValuesUnpinned(m) ==
    [slice_size |-> CeilHalf(m.num_entities), batch_size |-> 2]

\* values_dict at the start of the slice_size search: start_value is
\* ceil(model.num_entities / 2) and batch_size is 1
SliceValues(m) ==
    [slice_size |-> CeilHalf(m.num_entities), batch_size |-> 1]

\* if batch_size is None: batch_size = 1
BatchSizeOrOne(size) == IF size = None THEN 1 ELSE size

\* evaluate, lines 556-582 (model.to(device), model.eval(), torch.cat, .to(device)):
\* what the device lets happen before the batches are made: "pass", or the
\* RuntimeError raised.  A threshold device with site "prepare" runs out of memory
\* there exactly when the size asked for is above its threshold (KB without slicing,
\* KS with a slice size); one with site "predict" would do so at the model's
\* scoring call (lines 696, 698) and lets the preparation pass; on a device of
\* mode "never_fits" the preparation always runs out of memory; on one of mode
\* "any" it ends any way.  sc.mem is the memory-class error the device raises.
PrepareOutcomes(sc, b, s) ==
    CASE sc.mode = "never_fits" -> {sc.mem}
      [] sc.mode = "any" -> {sc.mem, "runtime_other", "pass"}
      [] sc.mode = "threshold" ->
            IF sc.site = "prepare" /\ (IF s = None THEN b > sc.KB ELSE s > sc.KS)
            THEN {sc.mem}
            ELSE {"pass"}

\* Sequential batches of size triples of a list of one triple or more, the last
\* one may be smaller.
RECURSIVE SequentialBatches(_, _)
SequentialBatches(input_list, size) ==
    IF Len(input_list) <= size THEN << input_list >>
    ELSE << SubSeq(input_list, 1, size) >>
         \o SequentialBatches(SubSeq(input_list, size + 1, Len(input_list)), size)

\* split_list_in_batches_iter(input_list=mapped_triples, batch_size=batch_size), the
\* ways the call can end.  Of one triple or more: the sequential batches.  Of an
\* empty list nothing is laid down: it gives no batch or one empty batch and, with
\* a batch size of 0 (which only the clamp of lines 240-241 produces, on an empty
\* list), one empty batch or a ValueError.
split_list_in_batches_iter(input_list, size) ==
    IF Len(input_list) >= 1
    THEN {[error |-> "-", batches |-> SequentialBatches(input_list, size)]}
    ELSE {[error |-> "-", batches |-> << << >> >>]}
         \cup (IF size = 0
               THEN {[error |-> "ValueError", batches |-> << >>]}
               ELSE {[error |-> "-", batches |-> << >>]})

\* evaluate, lines 587-635, on n triples without restriction and with batch size
\* b: the split raises; or there is no batch and the evaluators are finalised; or
\* the first turn of the loop reads relation_filter at line 619, unassigned, before
\* _evaluate is called.
LoopEnds(b, n) ==
    {IF split.error # "-" THEN split.error
     ELSE IF split.batches = << >> THEN "ok"
     ELSE "UnboundLocalError" :
        split \in split_list_in_batches_iter([i \in 1..n |-> << 0, 0, 0 >>], b)}

\* evaluate(batch_size=b, slice_size=s, ...) on n triples, by the way it ends.
EvaluateEnds(sc, b, s, n) ==
    UNION {IF o = "pass" THEN LoopEnds(BatchSizeOrOne(b), n) ELSE {o} :
              o \in PrepareOutcomes(sc, BatchSizeOrOne(b), s)}

\* evaluate(**values_dict, ..., only_size_probing=True) as the search sees it
ProbeOutcomes(sc, vd, max_triples) ==
    EvaluateEnds(sc, vd.batch_size, vd.slice_size, max_triples)

ProbeEvent(k, vd, out) ==
    [ev |-> "probe", key |-> k, batch_size |-> vd.batch_size,
     slice_size |-> vd.slice_size, out |-> out]

\* Mutant: the cache is not released.
CacheEventSkipped(k, vd) ==
    [ev |-> "skipped", key |-> k, batch_size |-> vd.batch_size,
     slice_size |-> vd.slice_size, out |-> "-"]

\* torch.cuda.empty_cache()
CacheEvent(k, vd) ==
    [ev |-> "empty_cache", key |-> k, batch_size |-> vd.batch_size,
     slice_size |-> vd.slice_size, out |-> "-"]

\* What a turn of the while loop adds to the trace: the probe, and the cache
\* release of line 268 or 283 unless the probe's exception passed the except clause.
TurnEvents(k, vd, out) ==
    << ProbeEvent(k, vd, out) >>
    \o (IF out = "ok" \/ IsRuntimeError(out) THEN << CacheEvent(k, vd) >> ELSE << >>)

\* What finalize() of an evaluator returns: that evaluator's results.
ResultsOf(evaluator) == [metric_results_of |-> evaluator]

\* if squeeze and len(results) == 1: return results[0]; return results
Squeeze(results, squeeze) == IF squeeze /\ Len(results) = 1 THEN results[1] ELSE results

NoResult == [kind |-> "none", error |-> "-", batch_size |-> None, slice_size |-> None]
Returned(b, s) == [kind |-> "return", error |-> "-", batch_size |-> b, slice_size |-> s]
Raised(e) == [kind |-> "raise", error |-> e, batch_size |-> None, slice_size |-> None]

(***************************************************************************)
(* Triples, and the restriction of the triples to evaluate.                 *)
(***************************************************************************)
MaxMapped == 1      \* largest number of triples given to evaluate

\* The entity and relation identifiers of the model.
Entities == {0, 1, 2}
Relations == {0, 1}
Triples == Entities \X Relations \X Entities

\* A restriction that is None.
Absent == {None}

\* tensor[:, col] of one row: column 0 is the head, 1 the relation, 2 the tail
Col(triple, col) == triple[col + 1]

SeqsUpTo(S, n) == UNION {[1..k -> S] : k \in 0..n}

NoMask == << >>

\* for col in (0, 2): mask &= (mapped_triples[:, None, col] == restrict_entities_to[None, :]).any(dim=-1)
HighMemoryEntityMask(triples, entities) ==
    [i \in DOMAIN triples |->
        \A col \in {0, 2} : \E e \in entities : Col(triples[i], col) = e]

\* (mapped_triples[:, None, 1] == restrict_relations_to[None, :]).any(dim=-1)
HighMemoryRelationMask(triples, relations) ==
    [i \in DOMAIN triples |-> \E r \in relations : Col(triples[i], 1) = r]

\* The mask of the vectorised variant.
_compute_triples_mask_high_memory(triples, entities, relations) ==
    LET ones == [i \in DOMAIN triples |-> TRUE]
        m1 == IF entities # Absent
              THEN [i \in DOMAIN triples |->
                        ones[i] /\ HighMemoryEntityMask(triples, entities)[i]]
              ELSE ones
    IN  IF relations # Absent
        THEN [i \in DOMAIN triples |->
                  m1[i] /\ HighMemoryRelationMask(triples, relations)[i]]
        ELSE m1

\* for entity_id in restrict_entities_to: for col in (0, 2):
\*     triples_entity_mask |= (mapped_triples[:, col] == entity_id)
LowMemoryEntityMask(triples, entities) ==
    [i \in DOMAIN triples |->
        \E e \in entities : \E col \in {0, 2} : Col(triples[i], col) = e]

\* for relation_id in restrict_relations_to:
\*     triples_relation_mask |= (mapped_triples[:, 1] == relation_id)
LowMemoryRelationMask(triples, relations) ==
    [i \in DOMAIN triples |-> \E r \in relations : Col(triples[i], 1) = r]

\* _compute_triples_mask_low_memory: triples_relation_mask is computed and never
\* combined into mask
_compute_triples_mask_low_memory(triples, entities, relations) ==
    LET ones == [i \in DOMAIN triples |-> TRUE]
        m1 == IF entities # Absent
              THEN [i \in DOMAIN triples |->
                        ones[i] /\ LowMemoryEntityMask(triples, entities)[i]]
              ELSE ones
        triples_relation_mask ==
              IF relations # Absent
              THEN LowMemoryRelationMask(triples, relations)
              ELSE NoMask
    IN  m1

\* mapped_triples[mask]
SelectByMask(triples, mask) ==
    LET idx == {i \in DOMAIN triples : mask[i]}
        RECURSIVE Take(_)
        Take(i) == IF i > Len(triples) THEN << >>
                   ELSE (IF i \in idx THEN << triples[i] >> ELSE << >>) \o Take(i + 1)
    IN  Take(1)

\* evaluate, "Filter triples": the mask of the chosen algorithm, then mapped_triples[mask]
FilterTriples(triples, entities, relations, memory_intense) ==
    IF relations # Absent \/ entities # Absent
    THEN LET mask == IF memory_intense
                     THEN _compute_triples_mask_high_memory(triples, entities, relations)
                     ELSE _compute_triples_mask_low_memory(triples, entities, relations)
         IN  SelectByMask(triples, mask)
    ELSE triples

NoMasks == [high |-> NoMask, low |-> NoMask, high_done |-> FALSE, low_done |-> FALSE]

(***************************************************************************)
(* One batch: scores, the positive filter, the dispatch to the evaluators.  *)
(***************************************************************************)
\* The training triples of the model: none, one triple, or two triples with the
\* same relation and tail (with a third head in the batch every head is a positive).
TrainingLists ==
    SeqsUpTo(Triples, 1)
    \cup {<< a, b >> : <<a, b>> \in
             {q \in Triples \X Triples :
                 q[1][2] = q[2][2] /\ q[1][3] = q[2][3] /\ q[1][1] < q[2][1]}}

\* An optional tensor: None, or a tensor, which may have no rows.
NoTensor == << >>
Tensor(t) == << t >>
TensorOf(x) == x[1]

\* float('nan')
NaN == 0 - 9

\* The rows of a tensor of triples, counted from 0 as the code counts them.
Rows(t) == 0..(Len(t) - 1)
Row(t, i) == t[i + 1]
Range(f) == {f[x] : x \in DOMAIN f}

\* The lists of evaluators given to evaluate.
Filtered == [filtered |-> TRUE, requires_positive_mask |-> FALSE]
Unfiltered == [filtered |-> FALSE, requires_positive_mask |-> FALSE]
UnfilteredMasked == [filtered |-> FALSE, requires_positive_mask |-> TRUE]
EvaluatorLists ==
    {<< Filtered >>, << Unfiltered >>, << UnfilteredMasked >>,
     << Unfiltered, Filtered >>, << Filtered, UnfilteredMasked >>}

\* filtered_evaluators, unfiltered_evaluators: the positions of each kind in the list
FilteredEvaluators(evs) == SelectSeq([i \in DOMAIN evs |-> i], LAMBDA i : evs[i].filtered)
UnfilteredEvaluators(evs) == SelectSeq([i \in DOMAIN evs |-> i], LAMBDA i : ~evs[i].filtered)

\* filtering_necessary = len(filtered_evaluators) > 0
FilteringNecessary(evs) == Len(FilteredEvaluators(evs)) > 0

\* positive_masks_required = any(e.requires_positive_mask for e in unfiltered_evaluators)
PositiveMasksRequired(evs) ==
    \E k \in DOMAIN UnfilteredEvaluators(evs) :
        evs[UnfilteredEvaluators(evs)[k]].requires_positive_mask

\* if filtering_necessary or positive_masks_required:
\*     all_pos_triples = torch.cat([model.triples_factory.mapped_triples, mapped_triples])
\* else: all_pos_triples = None
AllPosTriples(training, triples, evs) ==
    IF FilteringNecessary(evs) \/ PositiveMasksRequired(evs)
    THEN Tensor(training \o triples)
    ELSE NoTensor

\* model.predict_scores_all_tails / predict_scores_all_heads: the model's scores of
\* every entity for every row of the batch (an opaque, total scoring function).
PredictScores(b, column) ==
    [p \in Rows(b) \X Entities |-> 100 * column + 10 * (p[1] + 1) + p[2]]

\* scores[torch.arange(0, batch.shape[0]), batch[:, column]]
TrueScores(scores, b, column) ==
    [i \in Rows(b) |-> scores[<< i, Col(Row(b, i), column) >>]]

\* (all_pos_triples[:, 1:2]).view(1, -1) == relations
RelationFilterOf(b, pos) ==
    [p \in Rows(b) \X Rows(pos) |-> Col(Row(pos, p[2]), 1) = Col(Row(b, p[1]), 1)]

\* (all_pos_triples[:, other_col:other_col + 1]).view(1, -1) == entities
EntityFilterTest(b, pos, other_col) ==
    [p \in Rows(b) \X Rows(pos) |->
        Col(Row(pos, p[2]), other_col) = Col(Row(b, p[1]), other_col)]

\* tensor.nonzero(): the coordinates of the true entries, row by row
NonZero(m, nrows, ncols) ==
    LET coords == [k \in 1..(nrows * ncols) |-> << (k - 1) \div ncols, (k - 1) % ncols >>]
    IN  SelectSeq(coords, LAMBDA p : m[p])

\* Mutant: the join is made on the corrupted column itself.
OtherColSame(filter_col) == filter_col

\* other_col = 2 - filter_col
OtherCol(filter_col) == 2 - filter_col

\* create_sparse_positive_filter_: pos is all_pos_triples, a tensor; rel_filter is
\* the optional relation filter; the result is the pair returned, or the error.
create_sparse_positive_filter_(hrt_batch, pos, rel_filter, filter_col) ==
    IF filter_col \notin {0, 2}
    THEN [error |-> "NotImplementedError", filter_batch |-> << >>,
          relation_filter |-> rel_filter]
    ELSE
    LET rf == IF rel_filter = NoTensor
              THEN RelationFilterOf(hrt_batch, pos)
              ELSE TensorOf(rel_filter)
        other_col == OtherCol(filter_col)
        entity_filter_test == EntityFilterTest(hrt_batch, pos, other_col)
        nz == NonZero([p \in Rows(hrt_batch) \X Rows(pos) |-> entity_filter_test[p] /\ rf[p]],
                      Len(hrt_batch), Len(pos))
    IN  [error |-> "-",
         filter_batch |->
             [k \in DOMAIN nz |-> << nz[k][1], Col(Row(pos, nz[k][2]), filter_col) >>],
         relation_filter |-> Tensor(rf)]

\* Mutant: the whole row of a positive is marked.
create_dense_positive_mask_rows(zero_tensor, filter_batch) ==
    [p \in DOMAIN zero_tensor |->
        IF \E q \in Range(filter_batch) : q[1] = p[1] THEN 1 ELSE zero_tensor[p]]

\* zero_tensor[filter_batch[:, 0], filter_batch[:, 1]] = 1
create_dense_positive_mask_(zero_tensor, filter_batch) ==
    [p \in DOMAIN zero_tensor |-> IF p \in Range(filter_batch) THEN 1 ELSE zero_tensor[p]]

\* Mutant: nothing is filtered.
filter_scores_nothing(scores, filter_batch) == scores

\* scores[filter_batch[:, 0], filter_batch[:, 1]] = float('nan')
filter_scores_(scores, filter_batch) ==
    [p \in DOMAIN scores |-> IF p \in Range(filter_batch) THEN NaN ELSE scores[p]]

\* Mutant: the warning is logged as soon as one entry is NaN.
AllFilteredWarningAnyNaN(scores, b) ==
    \E i \in Rows(b) : \E e \in Entities : scores[<< i, e >>] = NaN

\* ((scores != scores).sum(dim=1) == num_entities).any(): the warning is logged
AllFilteredWarning(scores, b) ==
    \E i \in Rows(b) : \A e \in Entities : scores[<< i, e >>] = NaN

\* Mutant: the true scores are not written back.
RestoreTrueScoresNot(scores, b, column, true_scores) == scores

\* filtered_scores[torch.arange(0, batch.shape[0]), batch[:, column]] = true scores
RestoreTrueScores(scores, b, column, true_scores) ==
    [p \in DOMAIN scores |->
        IF p[2] = Col(Row(b, p[1]), column) THEN true_scores[p[1]] ELSE scores[p]]

\* tensor[:, restrict_entities_to]: the columns of the restricted entities
RestrictColumns(tensor, b, entities) ==
    [p \in Rows(b) \X entities |-> tensor[p]]

Event(fn, evaluator, hrt_batch, true_scores, scores, mask) ==
    [fn |-> fn, evaluator |-> evaluator, hrt_batch |-> hrt_batch,
     true_scores |-> true_scores, scores |-> scores, dense_positive_mask |-> mask]

\* Mutant: the filtered part runs before the unfiltered evaluators are called.
FilteredFirst(unfiltered_part, filtered_part) == filtered_part \o unfiltered_part

\* _evaluate: the loop over unfiltered_evaluators (lines 730-741) stands before the
\* "Filter" block (lines 743-771)
UnfilteredThenFiltered(unfiltered_part, filtered_part) == unfiltered_part \o filtered_part

ProcessName(column) == IF column = 2 THEN "process_tail_scores_" ELSE "process_head_scores_"

\* The record of a call of _evaluate that raised before it called an evaluator.
FailedCall(column, rel_filter, error, predicted, scores) ==
    [column |-> column, predicted |-> predicted, scores |-> scores,
     filter_batch |-> << >>, relation_filter_in |-> rel_filter,
     positive_mask |-> NoTensor, relation_filter |-> rel_filter, warned |-> FALSE,
     error |-> error, events |-> << >>]

\* _evaluate: what one call does, as a record of the call: whether the model was
\* asked for scores and the scores it returned, the positive filter, the dense
\* positive mask built from it, the relation filter returned, the error raised ("-"
\* for none) and the process calls made, in order (with the call of filter_scores_
\* among them).  pos is all_pos_triples and rel_filter is relation_filter, both
\* optional tensors; entities is restrict_entities_to.
_evaluate(b, column, evs, pos, rel_filter, entities) ==
    IF column \notin {0, 2}
    THEN FailedCall(column, rel_filter, "ValueError", FALSE, << >>)
    ELSE
    LET scores == PredictScores(b, column)
        true_scores == TrueScores(scores, b, column)
        need_filter == FilteringNecessary(evs) \/ PositiveMasksRequired(evs)
        pf == IF need_filter
              THEN create_sparse_positive_filter_(b, TensorOf(pos), rel_filter, column)
              ELSE [error |-> "-", filter_batch |-> << >>, relation_filter |-> rel_filter]
        positive_mask == IF PositiveMasksRequired(evs)
                         THEN Tensor(create_dense_positive_mask_(
                                         [p \in DOMAIN scores |-> 0], pf.filter_batch))
                         ELSE NoTensor
        type_error == entities # Absent /\ positive_mask = NoTensor
        scores_ == IF entities # Absent
                   THEN RestrictColumns(scores, b, entities)
                   ELSE scores
        mask_ == IF entities # Absent
                 THEN Tensor(RestrictColumns(TensorOf(positive_mask), b, entities))
                 ELSE positive_mask
        unf == UnfilteredEvaluators(evs)
        unfiltered_events ==
            [k \in DOMAIN unf |->
                Event(ProcessName(column), unf[k], b, true_scores, scores_, mask_)]
        nan_scores == filter_scores_(scores, pf.filter_batch)
        restored == RestoreTrueScores(nan_scores, b, column, true_scores)
        filtered_scores == IF entities # Absent
                           THEN RestrictColumns(restored, b, entities)
                           ELSE restored
        fil == FilteredEvaluators(evs)
        filtered_events ==
            IF FilteringNecessary(evs)
            THEN << Event("filter_scores_", 0, b, true_scores, nan_scores, NoTensor) >>
                 \o [k \in DOMAIN fil |->
                        Event(ProcessName(column), fil[k], b, true_scores,
                              filtered_scores, NoTensor)]
            ELSE << >>
    IN  IF need_filter /\ pos = NoTensor
        THEN FailedCall(column, rel_filter, "AssertionError", TRUE, scores)
        ELSE IF type_error
        THEN [column |-> column, predicted |-> TRUE, scores |-> scores,
              filter_batch |-> pf.filter_batch,
              relation_filter_in |-> rel_filter,
              positive_mask |-> positive_mask,
              relation_filter |-> pf.relation_filter, warned |-> FALSE,
              error |-> "TypeError", events |-> << >>]
        ELSE [column |-> column, predicted |-> TRUE, scores |-> scores,
              filter_batch |-> pf.filter_batch,
              relation_filter_in |-> rel_filter,
              positive_mask |-> positive_mask,
              relation_filter |-> pf.relation_filter,
              warned |-> FilteringNecessary(evs) /\ AllFilteredWarning(nan_scores, b),
              error |-> "-",
              events |-> UnfilteredThenFiltered(unfiltered_events, filtered_events)]

\* The entity restrictions given with a batch: none, one entity, two, all of them
\* (the triples range over all entities, so which ones are named does not matter).
EntityRestrictions == {Absent, {0}, {0, 1}, Entities}

\* The batch side at rest, in the other specifications.
BatchIdle ==
    /\ training_triples = << >>
    /\ evaluators = << >>
    /\ all_pos_triples = NoTensor
    /\ batch = << >>
    /\ relation_filter = NoTensor
    /\ calls = << >>

NoOutcome == [kind |-> "none", error |-> "-", results |-> << >>]

\* The loop of evaluate at rest, in the other specifications.
LoopIdle ==
    /\ args = [only_size_probing |-> FALSE, batch_size |-> None, squeeze |-> TRUE]
    /\ all_batches = << >>
    /\ batches = << >>
    /\ loop_evaluated_once = FALSE
    /\ bound_locals = {}
    /\ log = << >>
    /\ outcome = NoOutcome

\* The evaluation side at rest, in the specification of the size search.
EvalIdle ==
    /\ mapped_triples = << >>
    /\ restrict_entities_to = Absent
    /\ restrict_relations_to = Absent
    /\ memory_intense_filtering = FALSE
    /\ masks = NoMasks
    /\ kept_triples = << >>
    /\ BatchIdle
    /\ LoopIdle
    /\ epc = "idle"

\* The size search at rest, in the specifications of the evaluation side.
SearchIdle ==
    /\ pc = "idle"
    /\ entry = "-"
    /\ self_sizes = [batch_size |-> None, slice_size |-> None]
    /\ key = "-"
    /\ values_dict = [batch_size |-> None, slice_size |-> None]
    /\ reached_max = FALSE
    /\ evaluated_once = FALSE
    /\ given_batch_size = None
    /\ batch_size = None
    /\ maximum_triples = 0
    /\ model = [num_entities |-> Cardinality(Entities), can_slice_h |-> FALSE,
                can_slice_t |-> FALSE, create_inverse_triples |-> FALSE,
                automatic_memory_optimization |-> FALSE]
    /\ scorer = [mode |-> "any", site |-> "prepare", KB |-> 0, KS |-> 0,
                 mem |-> "cuda_oom"]
    /\ result = NoResult
    /\ trace = << >>

(***************************************************************************)
(* Evaluator.evaluate and the size search.                                  *)
(***************************************************************************)
\* The devices.  Threshold devices (a sliced probe is only ever made when KB = 0)
\* that run out of memory while evaluate prepares, or would at the scoring call;
\* and devices on which the preparation ends any way.
ThresholdDevices(sites) ==
    [mode : {"threshold"}, site : sites, KB : 1..MaxK, KS : {0}, mem : {"cuda_oom"}]
    \cup [mode : {"threshold"}, site : sites, KB : {0}, KS : 0..MaxK, mem : {"cuda_oom"}]

Scorers ==
    ThresholdDevices({"prepare", "predict"})
    \cup [mode : {"any"}, site : {"prepare"}, KB : {0}, KS : {0}, mem : {"cuda_oom", "cudnn"}]

Models ==
    [num_entities : 1..MaxEntities, can_slice_h : BOOL, can_slice_t : BOOL,
     create_inverse_triples : BOOL, automatic_memory_optimization : BOOL]

\* The number of training triples of the model (model.triples_factory.mapped_triples).
NumTrainingTriples == 2

\* if model.automatic_memory_optimization and batch_size is None
SearchesSizes(m, given) == m.automatic_memory_optimization /\ given = None

\* The calls made.  batch_and_slice is called on a triple set that may be empty (it
\* does not read automatic_memory_optimization).  Evaluator.evaluate is called with
\* or without mapped_triples and without restriction; where it does not search, the
\* model's slicing flags are not read.
Init ==
    /\ entry \in {"batch_and_slice", "evaluate"}
    /\ pc = IF entry = "evaluate" THEN "called" ELSE "idle"
    /\ self_sizes = [batch_size |-> None, slice_size |-> None]
    /\ key = "-"
    /\ values_dict = [batch_size |-> None, slice_size |-> None]
    /\ reached_max = FALSE
    /\ evaluated_once = FALSE
    /\ given_batch_size \in {None} \cup (1..MaxStart)
    /\ batch_size = given_batch_size
    /\ maximum_triples \in {None} \cup (0..MaxTriples)
    /\ model \in Models
    /\ IF entry = "batch_and_slice"
       THEN /\ maximum_triples \in 0..MaxTriples
            /\ model.automatic_memory_optimization
       ELSE SearchesSizes(model, given_batch_size)
            \/ (/\ model.num_entities = 1
                /\ ~model.can_slice_h
                /\ ~model.can_slice_t
                /\ ~model.create_inverse_triples)
    /\ scorer \in Scorers
    /\ result = NoResult
    /\ trace = << >>
    /\ EvalIdle

\* Evaluator.evaluate, lines 133-147: mapped_triples defaults to the training
\* triples; with automatic memory optimization and no batch size given,
\* batch_and_slice is called (with batch_size=None), otherwise evaluate is.
EvaluatorEvaluate ==
    /\ UNCHANGED evalVars
    /\ pc = "called"
    /\ entry = "evaluate"
    /\ maximum_triples' = IF maximum_triples = None
                          THEN NumTrainingTriples
                          ELSE maximum_triples
    /\ pc' = IF SearchesSizes(model, given_batch_size) THEN "idle" ELSE "run"
    /\ UNCHANGED << entry, self_sizes, key, values_dict, reached_max, evaluated_once,
                    given_batch_size, batch_size, model, scorer, result, trace >>

\* batch_and_slice calls _param_size_search(key='batch_size', start_value=batch_size)
BatchSearchStart ==
    /\ UNCHANGED evalVars
    /\ pc = "idle"
    /\ key' = "batch_size"
    /\ values_dict' = BatchValues(batch_size, maximum_triples)
    /\ reached_max' = FALSE
    /\ evaluated_once' = FALSE
    /\ pc' = "loop"
    /\ UNCHANGED << entry, self_sizes, given_batch_size, batch_size, maximum_triples,
                    model, scorer, result, trace >>

\* _param_size_search, lines 266-290: what a turn of the while loop does once the
\* probe has ended with out.  An exception that is no RuntimeError passes the
\* except clause; a RuntimeError that is no memory error is raised again; a memory
\* error ends the search at value 1 and halves the value otherwise; after a probe
\* that returned (the else branch) the value is doubled, or the search ends, or
\* evaluated_once is set.
HandleProbe(out) ==
    IF out # "ok" /\ ~IsRuntimeError(out)
    THEN /\ result' = Raised(out)
         /\ pc' = "done"
         /\ UNCHANGED << values_dict, evaluated_once, reached_max >>
    ELSE IF out = "ok"
    THEN /\ IF MayGrow(reached_max, values_dict, maximum_triples)
            THEN /\ values_dict' = [values_dict EXCEPT ![key] = Double(@)]
                 /\ evaluated_once' = TRUE
                 /\ pc' = "loop"
            ELSE IF evaluated_once
                 THEN /\ pc' = "searched"
                      /\ UNCHANGED << values_dict, evaluated_once >>
                 ELSE /\ evaluated_once' = TRUE
                      /\ pc' = "loop"
                      /\ UNCHANGED values_dict
         /\ UNCHANGED << reached_max, result >>
    ELSE IF ~IsMemoryError(out)
    THEN /\ result' = Raised(out)
         /\ pc' = "done"
         /\ UNCHANGED << values_dict, evaluated_once, reached_max >>
    ELSE /\ IF AtFloor(values_dict[key])
            THEN /\ pc' = "searched"
                 /\ UNCHANGED << values_dict, evaluated_once, reached_max >>
            ELSE /\ values_dict' = [values_dict EXCEPT ![key] = Halve(@)]
                 /\ evaluated_once' = FALSE
                 /\ reached_max' = TRUE
                 /\ pc' = "loop"
         /\ UNCHANGED result

\* One turn of the while loop: the probe, and what follows from the way it ended.
\* A search over no triples need not end (the value is clamped to 0 and stays 0);
\* it is followed for MaxEmptyProbes probes.
SearchTurn ==
    /\ UNCHANGED evalVars
    /\ pc = "loop"
    /\ maximum_triples = 0 => Len(trace) < 2 * MaxEmptyProbes
    /\ \E out \in ProbeOutcomes(scorer, values_dict, maximum_triples) :
        /\ trace' = trace \o TurnEvents(key, values_dict, out)
        /\ HandleProbe(out)
    /\ UNCHANGED << entry, self_sizes, key, given_batch_size, batch_size, maximum_triples,
                    model, scorer >>

\* batch_and_slice, lines 207-220, and the start of the slice_size search, lines
\* 244-247.  After a batch_size search that ended with evaluated_once the pair
\* (batch_size, None) is returned (to Evaluator.evaluate, which stores it in
\* self.batch_size and self.slice_size and goes on to call evaluate).  Otherwise
\* the slice_size search starts, unless _check_slicing_availability raises.
BatchSearchEnd ==
    /\ UNCHANGED evalVars
    /\ pc = "searched"
    /\ key = "batch_size"
    /\ batch_size' = values_dict.batch_size
    /\ IF evaluated_once
       THEN /\ result' = Returned(values_dict.batch_size, None)
            /\ self_sizes' = IF entry = "evaluate"
                             THEN [batch_size |-> values_dict.batch_size,
                                   slice_size |-> None]
                             ELSE self_sizes
            /\ pc' = IF entry = "evaluate" THEN "run" ELSE "done"
            /\ UNCHANGED << key, values_dict, reached_max, evaluated_once >>
       ELSE IF SlicingAvailable(model)
            THEN /\ key' = "slice_size"
                 /\ values_dict' = SliceValues(model)
                 /\ reached_max' = FALSE
                 /\ evaluated_once' = FALSE
                 /\ pc' = "loop"
                 /\ UNCHANGED << result, self_sizes >>
            ELSE /\ key' = "slice_size"
                 /\ result' = Raised("MemoryError_slicing")
                 /\ pc' = "done"
                 /\ UNCHANGED << values_dict, reached_max, evaluated_once, self_sizes >>
    /\ UNCHANGED << entry, given_batch_size, maximum_triples, model, scorer, trace >>

\* batch_and_slice, lines 221-224: the slice_size search returned: raise
\* MemoryError, or return batch_size, slice_size
SliceSearchEnd ==
    /\ UNCHANGED evalVars
    /\ pc = "searched"
    /\ key = "slice_size"
    /\ IF ~evaluated_once
       THEN /\ result' = Raised("MemoryError_sizing")
            /\ pc' = "done"
            /\ UNCHANGED self_sizes
       ELSE /\ result' = Returned(batch_size, values_dict.slice_size)
            /\ self_sizes' = IF entry = "evaluate"
                             THEN [batch_size |-> batch_size,
                                   slice_size |-> values_dict.slice_size]
                             ELSE self_sizes
            /\ pc' = IF entry = "evaluate" THEN "run" ELSE "done"
    /\ UNCHANGED << entry, key, values_dict, reached_max, evaluated_once,
                    given_batch_size, batch_size, maximum_triples, model, scorer, trace >>

\* Evaluator.evaluate, lines 149-161: return evaluate(..., evaluators=self,
\* batch_size=batch_size, slice_size=slice_size, squeeze=True, ...), with the sizes
\* batch_and_slice returned or else the batch size given and no slice size.
EvaluateRun ==
    /\ pc = "run"
    /\ LET b == IF result.kind = "return" THEN result.batch_size ELSE given_batch_size
           s == IF result.kind = "return" THEN result.slice_size ELSE None
       IN  \E out \in EvaluateEnds(scorer, b, s, maximum_triples) :
              outcome' = IF out = "ok"
                         THEN [kind |-> "return", error |-> "-",
                               results |-> Squeeze(<< ResultsOf(1) >>, TRUE)]
                         ELSE [kind |-> "raise", error |-> out, results |-> << >>]
    /\ pc' = "done"
    /\ UNCHANGED << entry, self_sizes, key, values_dict, reached_max, evaluated_once,
                    given_batch_size, batch_size, maximum_triples, model, scorer, result,
                    trace >>
    /\ UNCHANGED << maskVars, batchVars, epc, args, all_batches, batches, loop_evaluated_once,
                    bound_locals, log >>

Next ==
    \/ EvaluatorEvaluate
    \/ BatchSearchStart
    \/ SearchTurn
    \/ BatchSearchEnd
    \/ SliceSearchEnd
    \/ EvaluateRun

Spec == Init /\ [][Next]_vars

(***************************************************************************)
(* The size search as a running program: what it takes to end.  A turn of   *)
(* the while loop is two steps here, the call of evaluate and the handling   *)
(* of its ending, and the trace is not kept, so that a search that goes on  *)
(* for ever is a cycle of states.                                           *)
(***************************************************************************)
\* The devices of the running search: the threshold devices that run out of memory
\* while evaluate prepares, and one on which that always happens.
TermScorers ==
    ThresholdDevices({"prepare"})
    \cup {[mode |-> "never_fits", site |-> "prepare", KB |-> 0, KS |-> 0,
           mem |-> "cuda_oom"]}

\* pc after the call of evaluate in a turn of the loop, by the way the call ended.
ProbeEnded ==
    [ok |-> "probe_returned", cuda_oom |-> "probe_cuda_oom", cudnn |-> "probe_cudnn",
     runtime_other |-> "probe_runtime_other",
     UnboundLocalError |-> "probe_UnboundLocalError",
     ValueError |-> "probe_ValueError"]

\* batch_and_slice called on a triple set that may be empty: then the start value
\* is clamped to 0 (lines 240-241).
InitTerm ==
    /\ entry = "batch_and_slice"
    /\ pc = "idle"
    /\ self_sizes = [batch_size |-> None, slice_size |-> None]
    /\ key = "-"
    /\ values_dict = [batch_size |-> None, slice_size |-> None]
    /\ reached_max = FALSE
    /\ evaluated_once = FALSE
    /\ given_batch_size \in {None} \cup (1..MaxStart)
    /\ batch_size = given_batch_size
    /\ maximum_triples \in 0..MaxTriples
    /\ model \in Models
    /\ model.automatic_memory_optimization
    /\ scorer \in TermScorers
    /\ result = NoResult
    /\ trace = << >>
    /\ EvalIdle

\* evaluate(**values_dict, ..., only_size_probing=True) is called and ends.
TermProbe ==
    /\ UNCHANGED evalVars
    /\ pc = "loop"
    /\ \E out \in ProbeOutcomes(scorer, values_dict, maximum_triples) :
           pc' = ProbeEnded[out]
    /\ UNCHANGED << entry, self_sizes, key, values_dict, reached_max, evaluated_once,
                    given_batch_size, batch_size, maximum_triples, model, scorer, result,
                    trace >>

\* The rest of the turn: the except clause or the else branch of the try statement.
TermHandle ==
    /\ UNCHANGED evalVars
    /\ \E out \in Outcomes :
        /\ pc = ProbeEnded[out]
        /\ HandleProbe(out)
    /\ UNCHANGED << entry, self_sizes, key, given_batch_size, batch_size, maximum_triples,
                    model, scorer, trace >>

NextTerm ==
    \/ BatchSearchStart
    \/ TermProbe
    \/ TermHandle
    \/ BatchSearchEnd
    \/ SliceSearchEnd

\* The interpreter goes on to the next statement as long as there is one.
SpecTerm == InitTerm /\ [][NextTerm]_vars /\ WF_vars(NextTerm)

InitMask ==
    /\ SearchIdle
    /\ mapped_triples \in SeqsUpTo(Triples, MaxMapped)
    /\ restrict_entities_to \in {Absent} \cup SUBSET Entities
    /\ restrict_relations_to \in {Absent} \cup SUBSET Relations
    /\ memory_intense_filtering \in BOOL
    /\ masks = NoMasks
    /\ kept_triples = << >>
    /\ BatchIdle
    /\ LoopIdle
    /\ epc = "masks"

\* A call of _compute_triples_mask_high_memory on the inputs.
CallMaskHighMemory ==
    /\ epc = "masks"
    /\ ~masks.high_done
    /\ masks' = [masks EXCEPT
                   !.high = _compute_triples_mask_high_memory(
                               mapped_triples, restrict_entities_to, restrict_relations_to),
                   !.high_done = TRUE]
    /\ UNCHANGED << searchVars, batchVars, loopVars, mapped_triples, restrict_entities_to,
                    restrict_relations_to, memory_intense_filtering, kept_triples, epc >>

\* A call of _compute_triples_mask_low_memory on the inputs.
CallMaskLowMemory ==
    /\ epc = "masks"
    /\ ~masks.low_done
    /\ masks' = [masks EXCEPT
                   !.low = _compute_triples_mask_low_memory(
                               mapped_triples, restrict_entities_to, restrict_relations_to),
                   !.low_done = TRUE]
    /\ UNCHANGED << searchVars, batchVars, loopVars, mapped_triples, restrict_entities_to,
                    restrict_relations_to, memory_intense_filtering, kept_triples, epc >>

\* evaluate restricts the triples it goes on to batch and hand to the evaluators.
EvaluateFilterTriples ==
    /\ epc = "masks"
    /\ kept_triples' = FilterTriples(mapped_triples, restrict_entities_to,
                                     restrict_relations_to, memory_intense_filtering)
    /\ epc' = "filtered"
    /\ UNCHANGED << searchVars, batchVars, loopVars, mapped_triples, restrict_entities_to,
                    restrict_relations_to, memory_intense_filtering, masks >>

NextMask ==
    \/ CallMaskHighMemory
    \/ CallMaskLowMemory
    \/ EvaluateFilterTriples

SpecMask == InitMask /\ [][NextMask]_vars

(***************************************************************************)
(* C7.  Mask algorithm equivalence: on every triple set and every           *)
(* combination of restrictions the low-memory mask and the high-memory mask *)
(* are the same.                                                            *)
(***************************************************************************)
C7_MasksAgree ==
    (masks.high_done /\ masks.low_done) => masks.low = masks.high

(***************************************************************************)
(* C8.  Restriction semantics: the triples evaluate keeps for the           *)
(* evaluators are exactly the given triples whose head and tail are both in *)
(* restrict_entities_to (when given) and whose relation is in               *)
(* restrict_relations_to (when given), for either value of                  *)
(* memory_intense_filtering.                                                *)
(***************************************************************************)
Allowed(triple) ==
    /\ restrict_entities_to # Absent =>
           (triple[1] \in restrict_entities_to /\ triple[3] \in restrict_entities_to)
    /\ restrict_relations_to # Absent => triple[2] \in restrict_relations_to

C8_KeptTriplesAreTheAllowed ==
    epc = "filtered" => kept_triples = SelectSeq(mapped_triples, Allowed)


(***************************************************************************)
(* SpecBatch: direct calls of _evaluate.  The arguments are drawn at Init: a *)
(* batch, the evaluators, the entity restriction, and as all_pos_triples    *)
(* what lines 575-579 make of the training triples and the batch.  The      *)
(* first call is for column 0 with relation_filter=None, the second for     *)
(* column 2 with the relation filter the first call returned, which is the  *)
(* re-use the docstring of _evaluate describes.  (The loop of evaluate      *)
(* never gets this far: see BothSides.)                                     *)
(***************************************************************************)
InitBatch ==
    /\ SearchIdle
    /\ mapped_triples = << >>
    /\ restrict_entities_to \in EntityRestrictions
    /\ restrict_relations_to = Absent
    /\ memory_intense_filtering = FALSE
    /\ masks = NoMasks
    /\ kept_triples = << >>
    /\ training_triples \in TrainingLists
    /\ evaluators \in EvaluatorLists
    /\ batch \in SeqsUpTo(Triples, MaxMapped) \ {<< >>}
    /\ all_pos_triples = AllPosTriples(training_triples, batch, evaluators)
    /\ relation_filter = NoTensor
    /\ calls = << >>
    /\ LoopIdle
    /\ epc = "head"

\* _evaluate(batch, column=0, relation_filter=None, ...)
EvaluateHead ==
    /\ epc = "head"
    /\ LET call == _evaluate(batch, 0, evaluators, all_pos_triples, relation_filter,
                             restrict_entities_to)
       IN  /\ calls' = Append(calls, call)
           /\ IF call.error = "-"
              THEN relation_filter' = call.relation_filter /\ epc' = "tail"
              ELSE UNCHANGED relation_filter /\ epc' = "raised"
    /\ UNCHANGED << searchVars, maskVars, loopVars, training_triples, evaluators, all_pos_triples,
                    batch >>

\* _evaluate(batch, column=2, relation_filter=what the first call returned, ...)
EvaluateTail ==
    /\ epc = "tail"
    /\ LET call == _evaluate(batch, 2, evaluators, all_pos_triples, relation_filter,
                             restrict_entities_to)
       IN  /\ calls' = Append(calls, call)
           /\ IF call.error = "-"
              THEN relation_filter' = call.relation_filter /\ epc' = "end"
              ELSE UNCHANGED relation_filter /\ epc' = "raised"
    /\ UNCHANGED << searchVars, maskVars, loopVars, training_triples, evaluators, all_pos_triples,
                    batch >>

NextBatch ==
    \/ EvaluateHead
    \/ EvaluateTail

SpecBatch == InitBatch /\ [][NextBatch]_vars

(***************************************************************************)
(* SpecLoop: evaluate from its call to its return or raise.                 *)
(***************************************************************************)
MaxLoopTriples == 3     \* largest number of triples given to evaluate in SpecLoop

\* The triples given to evaluate in SpecLoop.
LoopTriples == {<< 0, 0, 1 >>, << 1, 0, 2 >>}

\* The batch sizes given to evaluate.
LoopBatchSizes == {None, 1, 2}

LogEntry(fn, evaluator, batch_no, column) ==
    [fn |-> fn, evaluator |-> evaluator, batch_no |-> batch_no, column |-> column]

\* What one call of _evaluate adds to the log: the call of the model, then the
\* calls the record of the call lists.
LogOf(call, batch_no) ==
    (IF call.predicted
     THEN << LogEntry("predict_scores", 0, batch_no, call.column) >>
     ELSE << >>)
    \o [k \in DOMAIN call.events |->
           LogEntry(call.events[k].fn, call.events[k].evaluator, batch_no, call.column)]

RECURSIVE LogOfAll(_, _)
LogOfAll(cs, batch_no) ==
    IF cs = << >> THEN << >> ELSE LogOf(Head(cs), batch_no) \o LogOfAll(Tail(cs), batch_no)

\* for column in (0, 2): relation_filter = _evaluate(..., relation_filter=relation_filter, ...)
\* The argument relation_filter is read before the call is made: while the local is
\* not assigned the read raises UnboundLocalError.
BothSides(b, rf_bound, rf, evs, pos, entities) ==
    IF ~rf_bound
    THEN [calls |-> << >>, error |-> "UnboundLocalError", relation_filter |-> rf,
          assigned |-> FALSE]
    ELSE LET head == _evaluate(b, 0, evs, pos, rf, entities)
         IN  IF head.error # "-"
             THEN [calls |-> << head >>, error |-> head.error, relation_filter |-> rf,
                   assigned |-> TRUE]
             ELSE LET tail == _evaluate(b, 2, evs, pos, head.relation_filter, entities)
                  IN  IF tail.error # "-"
                      THEN [calls |-> << head, tail >>, error |-> tail.error,
                            relation_filter |-> head.relation_filter, assigned |-> TRUE]
                      ELSE [calls |-> << head, tail >>, error |-> "-",
                            relation_filter |-> tail.relation_filter, assigned |-> TRUE]

\* Mutant: the evaluators are finalised last to first.
FinalizeOrderReversed(evs) == [i \in DOMAIN evs |-> Len(evs) + 1 - i]

\* [evaluator.finalize() for evaluator in evaluators]: the evaluators in list order
FinalizeOrder(evs) == [i \in DOMAIN evs |-> i]

InitLoop ==
    /\ SearchIdle
    /\ mapped_triples \in SeqsUpTo(LoopTriples, MaxLoopTriples)
    /\ restrict_entities_to \in {Absent, {0, 1}}
    /\ restrict_relations_to \in {Absent, {1}}
    /\ memory_intense_filtering \in BOOL
    /\ masks = NoMasks
    /\ kept_triples = << >>
    /\ training_triples \in {<< >>, << << 2, 0, 1 >> >>}
    /\ evaluators \in EvaluatorLists
    /\ all_pos_triples = NoTensor
    /\ batch = << >>
    /\ relation_filter = NoTensor
    /\ calls = << >>
    /\ args \in [only_size_probing : BOOL, batch_size : LoopBatchSizes, squeeze : BOOL]
    /\ all_batches = << >>
    /\ batches = << >>
    /\ loop_evaluated_once = FALSE
    /\ bound_locals = {}
    /\ log = << >>
    /\ outcome = NoOutcome
    /\ epc = "start"

\* evaluate, lines 537-593: the triples are restricted, the positives gathered, the
\* batches prepared, evaluated_once = False.
EvaluateStart ==
    /\ epc = "start"
    /\ LET kept == FilterTriples(mapped_triples, restrict_entities_to,
                                 restrict_relations_to, memory_intense_filtering)
       IN  /\ kept_triples' = kept
           /\ all_pos_triples' = AllPosTriples(training_triples, kept, evaluators)
           /\ \E split \in split_list_in_batches_iter(
                               kept, BatchSizeOrOne(args.batch_size)) :
                 /\ all_batches' = split.batches
                 /\ batches' = split.batches
                 /\ IF split.error # "-"
                    THEN /\ outcome' = [kind |-> "raise", error |-> split.error,
                                        results |-> << >>]
                         /\ epc' = "raised"
                    ELSE /\ epc' = "loop"
                         /\ UNCHANGED outcome
    /\ loop_evaluated_once' = FALSE
    /\ UNCHANGED << searchVars, mapped_triples, restrict_entities_to,
                    restrict_relations_to, memory_intense_filtering, masks,
                    training_triples, evaluators, batch, relation_filter, calls, args,
                    bound_locals, log >>

\* One turn of "for batch in batches": both sides, then the probing break or
\* evaluated_once = True.
EvaluateBatch ==
    /\ epc = "loop"
    /\ batches # << >>
    /\ batch' = Head(batches)
    /\ batches' = Tail(batches)
    /\ LET batch_no == Len(all_batches) - Len(batches) + 1
           sides == BothSides(Head(batches), "relation_filter" \in bound_locals,
                              relation_filter, evaluators, all_pos_triples,
                              restrict_entities_to)
       IN  /\ calls' = calls \o sides.calls
           /\ log' = log \o LogOfAll(sides.calls, batch_no)
           /\ relation_filter' = sides.relation_filter
           /\ bound_locals' = IF sides.assigned
                              THEN bound_locals \cup {"relation_filter"}
                              ELSE bound_locals
           /\ IF sides.error # "-"
              THEN /\ outcome' = [kind |-> "raise", error |-> sides.error,
                                  results |-> << >>]
                   /\ epc' = "raised"
                   /\ UNCHANGED loop_evaluated_once
              ELSE IF args.only_size_probing /\ loop_evaluated_once
                   THEN /\ epc' = "finalize"
                        /\ UNCHANGED << loop_evaluated_once, outcome >>
                   ELSE /\ loop_evaluated_once' = TRUE
                        /\ epc' = "loop"
                        /\ UNCHANGED outcome
    /\ UNCHANGED << searchVars, maskVars, training_triples, evaluators, all_pos_triples,
                    args, all_batches >>

\* After the loop: results = [evaluator.finalize() for evaluator in evaluators], and
\* the return.
EvaluateFinalize ==
    /\ epc = "finalize" \/ (epc = "loop" /\ batches = << >>)
    /\ LET order == FinalizeOrder(evaluators)
       IN  /\ log' = log \o [i \in DOMAIN order |-> LogEntry("finalize", order[i], 0, None)]
           /\ outcome' = [kind |-> "return", error |-> "-",
                          results |-> Squeeze([i \in DOMAIN order |-> ResultsOf(order[i])],
                                              args.squeeze)]
    /\ epc' = "returned"
    /\ UNCHANGED << searchVars, maskVars, batchVars, args, all_batches, batches,
                    loop_evaluated_once,
                    bound_locals >>

NextLoop ==
    \/ EvaluateStart
    \/ EvaluateBatch
    \/ EvaluateFinalize

SpecLoop == InitLoop /\ [][NextLoop]_vars

(***************************************************************************)
(* C9.  Filter completeness: for every batch row i and side c the pairs     *)
(* (i, e) of the sparse positive filter are exactly those with e the entity *)
(* in column c of a positive triple that has the relation of row i and the  *)
(* entity of row i in the other column.                                     *)
(***************************************************************************)
ExpectedPositives(c) ==
    LET positives == TensorOf(all_pos_triples)
    IN  {<< i, e >> \in Rows(batch) \X Entities :
            \E j \in DOMAIN positives :
                /\ positives[j][2] = batch[i + 1][2]
                /\ IF c = 0
                   THEN positives[j][3] = batch[i + 1][3] /\ positives[j][1] = e
                   ELSE positives[j][1] = batch[i + 1][1] /\ positives[j][3] = e}

C9_FilterIsExactlyThePositives ==
    \A k \in DOMAIN calls :
        all_pos_triples # NoTensor =>
            Range(calls[k].filter_batch) = ExpectedPositives(calls[k].column)

\* C9 witness: the training triple shares head and relation with the row but not the
\* tail: the head side leaves it out and the tail side, given the head side's
\* relation filter, lists its tail beside the row's own.
C9_Witness ==
    /\ Len(calls) = 2
    /\ calls[2].column = 2
    /\ all_pos_triples # NoTensor
    /\ Len(TensorOf(all_pos_triples)) = 2
    /\ Len(calls[1].filter_batch) = 1
    /\ Len(calls[2].filter_batch) = 2
    /\ \E p \in Range(calls[2].filter_batch) : p[2] # batch[p[1] + 1][3]

(***************************************************************************)
(* C10.  Self-inclusion and restoration: in every call of _evaluate with    *)
(* filtering each row's own true entity is in the row's sparse positive     *)
(* filter, and in the scores handed to the filtered evaluators the entry at *)
(* the true entity's column is the score the model returned for it, not NaN.*)
(***************************************************************************)
IsFilteredProcess(e) == e.fn # "filter_scores_" /\ evaluators[e.evaluator].filtered

C10_TrueScoreKept ==
    \A k \in DOMAIN calls :
        LET c == calls[k].column
        IN  \A n \in DOMAIN calls[k].events :
              IsFilteredProcess(calls[k].events[n]) =>
                \A i \in Rows(batch) :
                    LET own == << i, batch[i + 1][c + 1] >>
                        handed == calls[k].events[n].scores
                    IN  /\ own \in Range(calls[k].filter_batch)
                        /\ own \in DOMAIN handed =>
                               /\ handed[own] = calls[k].scores[own]
                               /\ handed[own] # NaN

\* C10 witness: a filtered evaluator was handed tail scores in which another
\* positive is NaN while the row's own entity has its score.
C10_Witness ==
    /\ Len(calls) = 2
    /\ \E n \in DOMAIN calls[2].events :
         /\ IsFilteredProcess(calls[2].events[n])
         /\ \E p \in DOMAIN calls[2].events[n].scores :
                calls[2].events[n].scores[p] = NaN
         /\ \A i \in Rows(batch) :
                << i, batch[i + 1][3] >> \in DOMAIN calls[2].events[n].scores

(***************************************************************************)
(* C11.  Unfiltered before filtered: in every call of _evaluate every       *)
(* unfiltered evaluator's process call comes before filter_scores_ writes   *)
(* NaN into the score matrix, and the scores an unfiltered evaluator is     *)
(* handed hold no NaN.                                                      *)
(***************************************************************************)
IsUnfilteredProcess(e) == e.fn # "filter_scores_" /\ ~evaluators[e.evaluator].filtered

C11_UnfilteredBeforeFilter ==
    \A k \in DOMAIN calls :
        \A n \in DOMAIN calls[k].events :
            IsUnfilteredProcess(calls[k].events[n]) =>
                /\ \A p \in DOMAIN calls[k].events[n].scores :
                       calls[k].events[n].scores[p] # NaN
                /\ \A m \in DOMAIN calls[k].events :
                       calls[k].events[m].fn = "filter_scores_" => n < m

\* C11 witness: on the tail side an unfiltered evaluator was called and after it
\* filter_scores_ wrote NaN into the matrix.
C11_Witness ==
    /\ Len(calls) = 2
    /\ \E n, m \in DOMAIN calls[2].events :
         /\ n < m
         /\ IsUnfilteredProcess(calls[2].events[n])
         /\ calls[2].events[m].fn = "filter_scores_"
         /\ \E p \in DOMAIN calls[2].events[m].scores :
                calls[2].events[m].scores[p] = NaN

(***************************************************************************)
(* C15.  Mask/filter agreement: the matrix create_dense_positive_mask_      *)
(* returns for a zero matrix and a sparse filter has entry (i, j) = 1 if    *)
(* and only if (i, j) is a pair of the filter, and 0 everywhere else.       *)
(***************************************************************************)
C15_DenseMaskIsTheFilter ==
    \A k \in DOMAIN calls :
        calls[k].positive_mask # NoTensor =>
            /\ DOMAIN TensorOf(calls[k].positive_mask) = Rows(batch) \X Entities
            /\ \A p \in Rows(batch) \X Entities :
                   /\ TensorOf(calls[k].positive_mask)[p] \in {0, 1}
                   /\ TensorOf(calls[k].positive_mask)[p] = 1
                        <=> \E j \in DOMAIN calls[k].filter_batch :
                                calls[k].filter_batch[j] = p

\* C15 witness: a dense mask with a one and a zero in the row, built from a filter
\* that lists the same pair twice (the batch triple is a training triple too).
C15_Witness ==
    \E k \in DOMAIN calls :
        /\ calls[k].positive_mask # NoTensor
        /\ \E p, q \in DOMAIN TensorOf(calls[k].positive_mask) :
               /\ TensorOf(calls[k].positive_mask)[p] = 1
               /\ TensorOf(calls[k].positive_mask)[q] = 0
        /\ \E i, j \in DOMAIN calls[k].filter_batch :
               i # j /\ calls[k].filter_batch[i] = calls[k].filter_batch[j]

(***************************************************************************)
(* C19.  Filtering changes only other positives: with filtering and no      *)
(* entity restriction the matrix handed to the filtered evaluators is NaN   *)
(* exactly at the entries (i, e) with e in row i's sparse positive filter   *)
(* and e not row i's true entity, and is the model's score everywhere else. *)
(***************************************************************************)
C19_OnlyOtherPositivesAreNaN ==
    \A k \in DOMAIN calls :
        \A n \in DOMAIN calls[k].events :
            (IsFilteredProcess(calls[k].events[n]) /\ restrict_entities_to = Absent) =>
                /\ DOMAIN calls[k].events[n].scores = Rows(batch) \X Entities
                /\ \A p \in Rows(batch) \X Entities :
                     LET other_positive ==
                             /\ \E j \in DOMAIN calls[k].filter_batch :
                                    calls[k].filter_batch[j] = p
                             /\ p[2] # batch[p[1] + 1][calls[k].column + 1]
                     IN  calls[k].events[n].scores[p] =
                             IF other_positive THEN NaN ELSE calls[k].scores[p]

\* C19 witness: without entity restriction the head side handed a filtered
\* evaluator a row with one other positive, NaN, beside two scores left as they were.
C19_Witness ==
    /\ restrict_entities_to = Absent
    /\ Len(calls) >= 1
    /\ \E n \in DOMAIN calls[1].events :
         /\ IsFilteredProcess(calls[1].events[n])
         /\ Cardinality({p \in DOMAIN calls[1].events[n].scores :
                            calls[1].events[n].scores[p] = NaN}) = 1

(***************************************************************************)
(* C20.  All-filtered diagnostic: filter_scores_ logs the warning if and    *)
(* only if, after NaN is written at the filter's pairs, some row is NaN in  *)
(* every entity column; the call does not raise and returns the matrix; and *)
(* after the restoration in _evaluate such a row is NaN everywhere except   *)
(* at the true entity's column, which holds the true score.                 *)
(***************************************************************************)
RowAllFiltered(k, i) ==
    \A e \in Entities :
        \E j \in DOMAIN calls[k].filter_batch : calls[k].filter_batch[j] = << i, e >>

C20_AllFilteredWarning ==
    \A k \in DOMAIN calls :
        (FilteringNecessary(evaluators) /\ calls[k].error = "-") =>
            /\ calls[k].warned <=> \E i \in Rows(batch) : RowAllFiltered(k, i)
            /\ \E m \in DOMAIN calls[k].events :
                 /\ calls[k].events[m].fn = "filter_scores_"
                 /\ \A p \in Rows(batch) \X Entities :
                        calls[k].events[m].scores[p] =
                            IF \E j \in DOMAIN calls[k].filter_batch :
                                   calls[k].filter_batch[j] = p
                            THEN NaN ELSE calls[k].scores[p]
            /\ \A n \in DOMAIN calls[k].events :
                 IsFilteredProcess(calls[k].events[n]) =>
                    \A i \in Rows(batch) :
                        RowAllFiltered(k, i) =>
                            \A p \in DOMAIN calls[k].events[n].scores :
                                p[1] = i =>
                                    calls[k].events[n].scores[p] =
                                        IF p[2] = batch[i + 1][calls[k].column + 1]
                                        THEN calls[k].scores[p] ELSE NaN

\* C20 witness: on the head side every head is a positive of the row: the warning
\* was logged and a filtered evaluator was handed the row, all NaN but the true head.
C20_Witness ==
    /\ Len(calls) >= 1
    /\ calls[1].warned
    /\ calls[1].error = "-"
    /\ \E n \in DOMAIN calls[1].events :
         /\ IsFilteredProcess(calls[1].events[n])
         /\ Cardinality({p \in DOMAIN calls[1].events[n].scores :
                            calls[1].events[n].scores[p] = NaN}) >= 1

(***************************************************************************)
(* What the trace says.                                                     *)
(***************************************************************************)
IsProbe(e) == e.ev = "probe"
Probes == SelectSeq(trace, IsProbe)
IsSliceProbe(e) == e.ev = "probe" /\ e.key = "slice_size"
IsBatchProbe(e) == e.ev = "probe" /\ e.key = "batch_size"
SliceProbes == SelectSeq(trace, IsSliceProbe)
BatchProbes == SelectSeq(trace, IsBatchProbe)
ProbedValue(e) == IF e.key = "batch_size" THEN e.batch_size ELSE e.slice_size
SearchEnded == pc = "searched"

\* The value the search running for key started with.
StartValue ==
    IF key = "batch_size"
    THEN ClampStart(batch_size, maximum_triples)
    ELSE CeilHalf(model.num_entities)

KeyProbes == SelectSeq(trace, LAMBDA e : e.ev = "probe" /\ e.key = key)

FailedOnMemory(e) == e.out \in {"cuda_oom", "cudnn"}

LastFailedAtOne(seq) ==
    /\ Len(seq) >= 1
    /\ ProbedValue(seq[Len(seq)]) = 1
    /\ FailedOnMemory(seq[Len(seq)])

\* A consequence of line 619 (and, on no triples, of the clamp to batch size 0): no
\* probe returns, so no search ends with evaluated_once and batch_and_slice returns
\* no sizes.
NoProbeReturns ==
    /\ \A i \in DOMAIN Probes : Probes[i].out # "ok"
    /\ ~evaluated_once
    /\ result.kind # "return"
    /\ self_sizes = [batch_size |-> None, slice_size |-> None]

(***************************************************************************)
(* C1.  Sizing monotonicity: with a scorer that runs out of memory exactly  *)
(* above a threshold K >= 1 (K at most the number of triples), a call of    *)
(* batch_and_slice, once over, has returned the batch size K.               *)
(***************************************************************************)
C1_ReturnsExactlyK ==
    (/\ entry = "batch_and_slice"
     /\ scorer.mode = "threshold"
     /\ scorer.KB >= 1
     /\ scorer.KB <= maximum_triples
     /\ pc = "done")
        => result = Returned(scorer.KB, None)

(***************************************************************************)
(* C2.  Sizing exhaustion: when every probe fails with a memory error and   *)
(* the model can slice (the start batch size and num_entities are >= 1 in   *)
(* every call), batch_and_slice runs the batch_size search down to 1, then  *)
(* the slice_size search down to 1, and then raises the sizing MemoryError; *)
(* it never returns a pair.                                                 *)
(***************************************************************************)
ModelCanSlice ==
    IF model.create_inverse_triples
    THEN model.can_slice_t
    ELSE model.can_slice_t /\ model.can_slice_h

C2_Exhaustion ==
    (scorer.mode = "never_fits" /\ ModelCanSlice) =>
        /\ [](result.kind # "return")
        /\ <>(key = "batch_size" /\ pc = "searched" /\ values_dict.batch_size = 1)
        /\ <>(key = "slice_size" /\ pc = "searched" /\ values_dict.slice_size = 1)
        /\ <>(result = Raised("MemoryError_sizing"))

(***************************************************************************)
(* C3.  Search orchestration: the batch_size search runs first; when it     *)
(* succeeds the result is (batch_size, None) and no slice_size probe is     *)
(* made; a slice_size probe is made only after the batch_size search failed *)
(* (a memory failure at batch_size 1), every slice probe runs with          *)
(* batch_size = 1, and the batch size returned with a slice size is 1.      *)
(***************************************************************************)
C3_Orchestration ==
    /\ Len(Probes) >= 1 => (Probes[1].key = "batch_size" /\ Probes[1].slice_size = None)
    /\ \A i \in DOMAIN Probes :
         Probes[i].key = "slice_size" =>
            /\ Probes[i].batch_size = 1
            /\ i > 1
            /\ Probes[i - 1].key = "batch_size" =>
                   /\ Probes[i - 1].batch_size = 1
                   /\ FailedOnMemory(Probes[i - 1])
    /\ (result.kind = "return" /\ result.slice_size = None) =>
            /\ Len(SliceProbes) = 0
            /\ result.batch_size = Probes[Len(Probes)].batch_size
    /\ (result.kind = "return" /\ result.slice_size # None) =>
            /\ result.batch_size = 1
            /\ Len(SliceProbes) >= 1
            /\ result.slice_size = Probes[Len(Probes)].slice_size

\* C3 witness: the batch_size search failed down to 1 and slice sizes were probed
\* after it, each with batch_size 1.
C3_Witness ==
    /\ Len(BatchProbes) >= 2
    /\ Len(SliceProbes) >= 2
    /\ SliceProbes[1].batch_size = 1
    /\ SliceProbes[2].slice_size < SliceProbes[1].slice_size

(***************************************************************************)
(* C4.  A probe error that is no memory error is never retried: after it no *)
(* further probe is made, the probed value is unchanged, and the same error *)
(* reaches the caller of batch_and_slice.                                   *)
(***************************************************************************)
C4_NonMemoryErrorPropagates ==
    \A i \in DOMAIN Probes :
        Probes[i].out \in {"runtime_other", "UnboundLocalError", "ValueError"} =>
            /\ i = Len(Probes)
            /\ pc = "done"
            /\ result = Raised(Probes[i].out)
            /\ key = Probes[i].key
            /\ values_dict[key] = ProbedValue(Probes[i])

\* C4 witness: a RuntimeError that is no memory error ended a search that had
\* already probed several values.
C4_Witness ==
    /\ pc = "done"
    /\ result = Raised("runtime_other")
    /\ Len(Probes) >= 3

(***************************************************************************)
(* C5.  Required slicing sides, as claimed: with inverse relations the      *)
(* slice_size search is permitted only if the model slices on both sides;   *)
(* without inverse relations tail-side slicing alone is enough.             *)
(***************************************************************************)
SliceSearchStarted == key = "slice_size" /\ result # Raised("MemoryError_slicing")
SliceSearchRefused == result = Raised("MemoryError_slicing")

C5_BothSidesWithInverse ==
    /\ (SliceSearchStarted /\ model.create_inverse_triples)
            => (model.can_slice_h /\ model.can_slice_t)
    /\ (SliceSearchRefused /\ ~model.create_inverse_triples)
            => ~model.can_slice_t

\* C5, amended: with inverse relations tail-side slicing alone is enough for the
\* slice_size search to proceed; without inverse relations it is permitted only if
\* the model slices on both the head side and the tail side.
C5_BothSidesWithoutInverse ==
    /\ (SliceSearchStarted /\ model.create_inverse_triples) => model.can_slice_t
    /\ (SliceSearchStarted /\ ~model.create_inverse_triples)
            => (model.can_slice_h /\ model.can_slice_t)
    /\ (SliceSearchRefused /\ model.create_inverse_triples) => ~model.can_slice_t
    /\ (SliceSearchRefused /\ ~model.create_inverse_triples)
            => ~(model.can_slice_h /\ model.can_slice_t)

\* C5 witness: with inverse relations the slice_size search probes a model that
\* slices on the tail side only.
C5_Witness ==
    /\ model.create_inverse_triples
    /\ model.can_slice_t
    /\ ~model.can_slice_h
    /\ Len(SliceProbes) >= 1

(***************************************************************************)
(* C6.  Unsupported slicing fails before probing: when the batch_size       *)
(* search has failed and the model does not slice on the required sides,    *)
(* batch_and_slice raises with no slice_size probe made.                    *)
(***************************************************************************)
C6_NoProbeWithoutSlicing ==
    ~ModelCanSlice =>
        /\ Len(SliceProbes) = 0
        /\ \A i \in DOMAIN Probes : Probes[i].slice_size = None
        /\ (pc = "done" /\ key = "slice_size") => result = Raised("MemoryError_slicing")
        /\ (pc = "done" /\ LastFailedAtOne(BatchProbes))
               => result = Raised("MemoryError_slicing")

\* C6 witness: the batch_size search failed at 1 and the slicing error was raised.
C6_Witness ==
    /\ result = Raised("MemoryError_slicing")
    /\ Len(BatchProbes) >= 2
    /\ BatchProbes[Len(BatchProbes)].batch_size = 1

(***************************************************************************)
(* C16.  Failure at value 1 is terminal failure: a probe at value 1 that    *)
(* fails with a memory error is the last probe of its search, and the       *)
(* search ends reporting failure (success flag false); a batch_size search  *)
(* that ended this way is followed by the slice_size search, and a          *)
(* slice_size search that ended this way by the sizing MemoryError; no      *)
(* sizes are returned after such a probe.                                   *)
(***************************************************************************)
C16_FailureAtOneIsFailure ==
    /\ \A i \in DOMAIN KeyProbes :
         (ProbedValue(KeyProbes[i]) = 1 /\ FailedOnMemory(KeyProbes[i])) =>
            /\ i = Len(KeyProbes)
            /\ pc # "loop"
            /\ ~evaluated_once
    /\ (pc \in {"loop", "done"} /\ LastFailedAtOne(BatchProbes)) => key = "slice_size"
    /\ (pc = "done" /\ LastFailedAtOne(SliceProbes)) => result = Raised("MemoryError_sizing")
    /\ result.kind = "return" =>
            ~(LastFailedAtOne(BatchProbes) \/ LastFailedAtOne(SliceProbes))

\* C16 witness: a search that halved its way down ended on a memory failure at
\* value 1, its success flag false.
C16_Witness ==
    /\ SearchEnded
    /\ Len(KeyProbes) >= 2
    /\ LastFailedAtOne(KeyProbes)
    /\ ~evaluated_once

(***************************************************************************)
(* What the log of an evaluate call says.                                   *)
(***************************************************************************)
AllBatches == all_batches
BatchesStarted == Len(AllBatches) - Len(batches)
EvaluateEnded == epc \in {"returned", "raised"}

RECURSIVE Flatten(_)
Flatten(seqs) == IF seqs = << >> THEN << >> ELSE Head(seqs) \o Flatten(Tail(seqs))

IsPredict(e) == e.fn = "predict_scores"
IsFinalize(e) == e.fn = "finalize"
IsProcess(e) == e.fn \in {"process_head_scores_", "process_tail_scores_"}

\* The sides of the batches 1..n in the order of the loop: head then tail of each.
SidesOf(n) == [k \in 1..(2 * n) |-> << (k + 1) \div 2, IF k % 2 = 1 THEN 0 ELSE 2 >>]

(***************************************************************************)
(* C12.  Dispatch exactly once: a non-probe evaluate run over a non-empty   *)
(* triple set ends with every kept triple in exactly one batch, the model's *)
(* scoring function called exactly once per batch and side, and every       *)
(* evaluator given one head-side and then one tail-side process call for    *)
(* each batch, the batches in order.                                        *)
(***************************************************************************)
C12_DispatchExactlyOnce ==
    (EvaluateEnded /\ ~args.only_size_probing /\ Len(kept_triples) >= 1) =>
        /\ Flatten(AllBatches) = kept_triples
        /\ LET predicts == SelectSeq(log, IsPredict)
           IN  [k \in DOMAIN predicts |-> << predicts[k].batch_no, predicts[k].column >>]
                   = SidesOf(Len(AllBatches))
        /\ \A ev \in DOMAIN evaluators :
             LET mine == SelectSeq(log, LAMBDA e : IsProcess(e) /\ e.evaluator = ev)
             IN  [k \in DOMAIN mine |-> << mine[k].batch_no, mine[k].column >>]
                     = SidesOf(Len(AllBatches))

(***************************************************************************)
(* C13.  Finalize once, in order, at the end: when evaluate returns, each   *)
(* evaluator's finalize has been called exactly once, after every process   *)
(* call of the run, in the order of the evaluator list, and the results     *)
(* are returned in that order.                                              *)
(***************************************************************************)
C13_FinalizeOnceInOrder ==
    outcome.kind = "return" =>
        /\ LET finals == SelectSeq(log, IsFinalize)
           IN  /\ Len(finals) = Len(evaluators)
               /\ \A i \in DOMAIN finals : finals[i].evaluator = i
        /\ \A i, j \in DOMAIN log : (IsProcess(log[i]) /\ IsFinalize(log[j])) => i < j
        /\ outcome.results =
               IF args.squeeze /\ Len(evaluators) = 1
               THEN [metric_results_of |-> 1]
               ELSE [i \in DOMAIN evaluators |-> [metric_results_of |-> i]]

\* C13 witness: evaluate returned the results of two evaluators, both finalised.
C13_Witness ==
    /\ outcome.kind = "return"
    /\ Len(evaluators) = 2
    /\ Len(outcome.results) = 2
    /\ Len(SelectSeq(log, IsFinalize)) = 2
    /\ Len(mapped_triples) >= 1

(***************************************************************************)
(* C14.  Probe mode bound: with only_size_probing set evaluate processes    *)
(* exactly min(2, number of batches) batches, both sides each, and then     *)
(* finalizes; it never starts a third batch.                                *)
(***************************************************************************)
C14_ProbeProcessesTwoBatches ==
    args.only_size_probing =>
        /\ BatchesStarted <= 2
        /\ EvaluateEnded =>
             LET n == IF Len(AllBatches) < 2 THEN Len(AllBatches) ELSE 2
                 predicts == SelectSeq(log, IsPredict)
             IN  /\ [k \in DOMAIN predicts |->
                         << predicts[k].batch_no, predicts[k].column >>] = SidesOf(n)
                 /\ Len(SelectSeq(log, IsFinalize)) = Len(evaluators)

(***************************************************************************)
(* C18.  Relation filter scope: for every batch the loop starts, the head   *)
(* side is given no relation filter and derives it from that batch, and the *)
(* tail side of the batch is given exactly the relation filter the head     *)
(* side returned.                                                           *)
(***************************************************************************)
C18_RelationFilterPerBatch ==
    \A n \in 1..BatchesStarted :
        /\ Len(calls) >= 2 * n
        /\ calls[2 * n - 1].column = 0
        /\ calls[2 * n - 1].relation_filter_in = NoTensor
        /\ (all_pos_triples # NoTensor) =>
               calls[2 * n - 1].relation_filter =
                   Tensor(RelationFilterOf(AllBatches[n], TensorOf(all_pos_triples)))
        /\ calls[2 * n].column = 2
        /\ calls[2 * n].relation_filter_in = calls[2 * n - 1].relation_filter

\* The probes and the cache releases of the trace.
IsProbeOrRelease(e) == e.ev \in {"probe", "empty_cache"}

(***************************************************************************)
(* C21.  Cache release between probes: between two consecutive probes of a  *)
(* search, the earlier of which returned or failed with a memory error,     *)
(* torch.cuda.empty_cache() is called at least once.                        *)
(***************************************************************************)
C21_CacheReleasedBetweenProbes ==
    LET steps == SelectSeq(trace, IsProbeOrRelease)
    IN  \A i \in 1..(Len(steps) - 1) :
            (/\ steps[i].ev = "probe"
             /\ steps[i].out \in {"ok", "cuda_oom", "cudnn"})
                => steps[i + 1].ev = "empty_cache"

\* C21 witness: three probes of one search, the first two of which ran out of
\* memory.
C21_Witness ==
    /\ Len(KeyProbes) >= 3
    /\ FailedOnMemory(KeyProbes[1])
    /\ FailedOnMemory(KeyProbes[2])

(***************************************************************************)
(* C22.  Entity restriction without positive mask: with an entity           *)
(* restriction and no unfiltered evaluator requiring a positive mask, every *)
(* call of _evaluate completes without error and hands each unfiltered      *)
(* evaluator the scores of the restricted entity columns and no mask.       *)
(***************************************************************************)
C22_RestrictionWithoutMask ==
    (restrict_entities_to # Absent /\ ~PositiveMasksRequired(evaluators)) =>
        \A k \in DOMAIN calls :
            /\ calls[k].error = "-"
            /\ \A n \in DOMAIN calls[k].events :
                 IsUnfilteredProcess(calls[k].events[n]) =>
                    /\ calls[k].events[n].dense_positive_mask = NoTensor
                    /\ calls[k].events[n].scores =
                           [p \in Rows(batch) \X restrict_entities_to |-> calls[k].scores[p]]

(***************************************************************************)
(* C23.  Search termination: whatever the probes do, succeed or fail with a *)
(* memory error, in any order, the batch_size search and the slice_size     *)
(* search end after finitely many probes, and batch_and_slice with them.    *)
(***************************************************************************)
C23_SearchTerminates == <>(pc = "done")

(***************************************************************************)
(* C24.  Batch size clamp: every batch_size probed in a batch_size search,  *)
(* and the batch size finally returned, is at most the number of            *)
(* evaluation triples.                                                      *)
(***************************************************************************)
C24_BatchSizeAtMostTriples ==
    /\ \A i \in DOMAIN BatchProbes : BatchProbes[i].batch_size <= maximum_triples
    /\ result.kind = "return" => result.batch_size <= maximum_triples

\* C24 witness: a start value above the number of triples was probed as that
\* number, and a smaller value after it.
C24_Witness ==
    /\ given_batch_size # None
    /\ given_batch_size > maximum_triples
    /\ Len(BatchProbes) >= 2
    /\ BatchProbes[1].batch_size = maximum_triples

(***************************************************************************)
(* C26.  Search value invariants: in a search started with a value >= 1 the *)
(* probed value is always >= 1; a memory failure at a value > 1 halves the  *)
(* value (integer division), sets reached_max and clears evaluated_once;    *)
(* and once reached_max is set the value never increases again.             *)
(***************************************************************************)
C26_SearchValueInvariants ==
    /\ []((key # "-" /\ StartValue >= 1) =>
             /\ pc = "loop" => values_dict[key] >= 1
             /\ \A i \in DOMAIN Probes : ProbedValue(Probes[i]) >= 1)
    /\ [][(/\ pc = "loop"
           /\ values_dict[key] > 1
           /\ Len(trace') = Len(trace) + 2
           /\ FailedOnMemory(trace'[Len(trace) + 1]))
              => /\ values_dict'[key] = values_dict[key] \div 2
                 /\ reached_max'
                 /\ ~evaluated_once']_vars
    /\ [][(pc = "loop" /\ reached_max) =>
              /\ key' = key
              /\ reached_max'
              /\ values_dict'[key] <= values_dict[key]]_vars

\* C26 witness: a search that halved from a value above 2 probes on below it, its
\* ceiling flag set.
C26_Witness ==
    /\ pc = "loop"
    /\ reached_max
    /\ Len(KeyProbes) >= 2
    /\ ProbedValue(KeyProbes[1]) > 2
    /\ FailedOnMemory(KeyProbes[Len(KeyProbes)])
    /\ values_dict[key] < ProbedValue(KeyProbes[1])

====
